---------------------------- MODULE Spec2Model ----------------------------
(***************************************************************************)
(* A model of veusz/helpers/src/threed/objects.cpp: the scene objects of   *)
(* the 3D plotting helper and their getFragments operations, which append  *)
(* projected fragments (triangles, line segments, path markers) to a       *)
(* caller-owned FragmentVector.                                            *)
(*                                                                         *)
(* Numbers.  A C++ double is modelled by an integer: the finite doubles    *)
(* are -DMax..DMax, where DMax stands for DBL_MAX; PInf and NInf are the   *)
(* two infinities and NaN is not-a-number.  Arithmetic follows IEEE 754:   *)
(* Inf-Inf and 0*Inf are NaN, x/0 is an infinity or NaN, and a finite      *)
(* result overflows to an infinity when it reaches 1.5*DMax, while one     *)
(* that exceeds DMax by less rounds back to DMax (as DBL_MAX + 12.0 is     *)
(* DBL_MAX and DBL_MAX + DBL_MAX is infinite).  The finite values the      *)
(* model feeds in are DMax itself and integers tiny against it.  Negative  *)
(* zero is not distinguished from zero.                                    *)
(***************************************************************************)
EXTENDS Integers, Sequences, FiniteSets, TLC

VARIABLES
  obj,    \* the scene object the caller holds (a record; kind names its class)
  v,      \* the caller's FragmentVector
  prev,   \* v as it was when the last getFragments call started
  outerM, \* the transform passed to the last getFragments call
  calls,  \* number of getFragments calls made so far
  left,   \* number of getFragments calls the model still explores
  junk,   \* what a read past the end of a ValVector returns (undefined behaviour)
  oob,    \* TRUE once some operation has read a ValVector past its end
  log     \* the lines printed to stderr so far

vars == <<obj, v, prev, outerM, calls, left, junk, oob, log>>

---------------------------------------------------------------------------
(* Bounds of the model *)

\* DMax is 12*BigMul: a multiple of 12 so that an average of 1..4 cell
\* values drawn from multiples of 12 is exact.
BigMul == 10000
\* getFragments calls made in a row on one scene
MaxCalls == 2
\* points of a PolyLine
MaxPts == 3
\* length of a Mesh coordinate array
MaxGrid == 3
\* length of a Mesh heights array
MaxHeights == 9
\* length of a DataMesh cell value array
MaxVals == 5
\* candidate axes added to an AxisTickLabels
MaxAxes == 3

---------------------------------------------------------------------------
(* doubles *)

DMax == 12 * BigMul
PInf == DMax + 1
NInf == 0 - (DMax + 1)
NaN  == DMax + 2

\* std::isfinite
IsFiniteD(x) == x >= 0 - DMax /\ x <= DMax

IsInfD(x) == x = PInf \/ x = NInf

Abs(x) == IF x < 0 THEN 0 - x ELSE x

Sign(x) == IF x < 0 THEN 0 - 1 ELSE IF x > 0 THEN 1 ELSE 0

\* the magnitude from which a result overflows
Overflow == DMax + (DMax \div 2)

\* rounding of an exact result into the doubles
Norm(x) ==
  IF x >= Overflow THEN PInf
  ELSE IF x <= 0 - Overflow THEN NInf
  ELSE IF x > DMax THEN DMax
  ELSE IF x < 0 - DMax THEN 0 - DMax
  ELSE x

\* a + b on doubles
DAdd(a, b) ==
  IF IsFiniteD(a) /\ IsFiniteD(b) THEN Norm(a + b)
  ELSE IF a = NaN \/ b = NaN THEN NaN
  ELSE IF IsInfD(a) THEN (IF IsInfD(b) /\ b # a THEN NaN ELSE a)
  ELSE IF IsInfD(b) THEN b
  ELSE Norm(a + b)

\* a * b on doubles
DMul(a, b) ==
  IF a = 0 /\ IsFiniteD(b) THEN 0
  ELSE IF a = 1 THEN b
  ELSE IF a = NaN \/ b = NaN THEN NaN
  ELSE IF IsInfD(a) \/ IsInfD(b)
       THEN (IF a = 0 \/ b = 0 THEN NaN
             ELSE IF Sign(a) * Sign(b) > 0 THEN PInf ELSE NInf)
  ELSE IF a = 0 \/ b = 0 THEN 0
  ELSE IF Abs(a) > Overflow \div Abs(b)
       THEN (IF Sign(a) * Sign(b) > 0 THEN PInf ELSE NInf)
  ELSE Norm(a * b)

DNeg(a) == IF a = NaN THEN NaN ELSE 0 - a

DSub(a, b) == DAdd(a, DNeg(b))

\* a / b on doubles; a finite quotient is rounded towards zero to a double
DDiv(a, b) ==
  IF b = 1 THEN a
  ELSE IF a = NaN \/ b = NaN THEN NaN
  ELSE IF IsInfD(b) THEN (IF IsInfD(a) THEN NaN ELSE 0)
  ELSE IF b = 0 THEN (IF a = 0 THEN NaN ELSE IF a > 0 THEN PInf ELSE NInf)
  ELSE IF IsInfD(a) THEN (IF Sign(a) * Sign(b) > 0 THEN PInf ELSE NInf)
  ELSE (Abs(a) \div Abs(b)) * Sign(a) * Sign(b)

\* a < b, a <= b, a > b on doubles: every comparison with NaN is false
DLt(a, b) == a # NaN /\ b # NaN /\ a < b
DLe(a, b) == a # NaN /\ b # NaN /\ a <= b
DGt(a, b) == DLt(b, a)

---------------------------------------------------------------------------
(* Vec3, Vec4, Mat4 (mmaths.h) *)

\* body(x) for x the value of e: a statement runs once, before the
\* statements that use what it computed
Then(e, body(_)) == CHOOSE r \in {body(x) : x \in {e}} : TRUE

Vec3(a, b, c) == <<a, b, c>>

vec3to4(p) == <<p[1], p[2], p[3], 1>>

\* perspective division by the w component
vec4to3(p) ==
  Then(p, LAMBDA q : <<DDiv(q[1], q[4]), DDiv(q[2], q[4]), DDiv(q[3], q[4])>>)

vec3to2(p) == <<p[1], p[2]>>

\* Vec3 + Vec3, Vec3 - Vec3, Vec3 * double (also used on Vec4)
VecAdd(p, q) == <<DAdd(p[1], q[1]), DAdd(p[2], q[2]), DAdd(p[3], q[3])>>
VecSub(p, q) == <<DSub(p[1], q[1]), DSub(p[2], q[2]), DSub(p[3], q[3])>>
VecScale(p, s) == <<DMul(p[1], s), DMul(p[2], s), DMul(p[3], s)>>

\* Vec4 + Vec4
Vec4Add(p, q) ==
  <<DAdd(p[1], q[1]), DAdd(p[2], q[2]), DAdd(p[3], q[3]), DAdd(p[4], q[4])>>

\* Vec3::isfinite, Vec4::isfinite: every component is finite
VecIsFinite(p) == \A i \in DOMAIN p : IsFiniteD(p[i])

cross(a, b) ==
  <<DSub(DMul(a[2], b[3]), DMul(a[3], b[2])),
    DSub(DMul(a[3], b[1]), DMul(a[1], b[3])),
    DSub(DMul(a[1], b[2]), DMul(a[2], b[1]))>>

Dot4(r, p) ==
  DAdd(DAdd(DAdd(DMul(r[1], p[1]), DMul(r[2], p[2])), DMul(r[3], p[3])),
       DMul(r[4], p[4]))

\* Mat4 * Vec4
MatVec(m, p) ==
  Then(p, LAMBDA q : <<Dot4(m[1], q), Dot4(m[2], q), Dot4(m[3], q), Dot4(m[4], q)>>)

MatCol(m, j) == <<m[1][j], m[2][j], m[3][j], m[4][j]>>

\* Mat4 * Mat4
MatRowMul(r, b) ==
  <<Dot4(r, MatCol(b, 1)), Dot4(r, MatCol(b, 2)),
    Dot4(r, MatCol(b, 3)), Dot4(r, MatCol(b, 4))>>

MatMul(a, b) ==
  <<MatRowMul(a[1], b), MatRowMul(a[2], b), MatRowMul(a[3], b), MatRowMul(a[4], b)>>

\* vec4to3(outerM * vec3to4(p)): the projection of a scene point
Proj(m, p) == vec4to3(MatVec(m, vec3to4(p)))

IdentityM == <<<<1,0,0,0>>, <<0,1,0,0>>, <<0,0,1,0>>, <<0,0,0,1>>>>

\* the views of the model: the identity; an oblique view (x and y doubled and
\* sheared by z); a perspective whose w is 1-z, so that a point with z = 1
\* projects to infinity; a reflection of the depth axis
ObliqueM == <<<<2,0,1,0>>, <<0,2,1,0>>, <<0,0,1,0>>, <<0,0,0,1>>>>
PerspM   == <<<<1,0,0,0>>, <<0,1,0,0>>, <<0,0,1,0>>, <<0,0,0-1,1>>>>
FlipM    == <<<<1,0,0,0>>, <<0,1,0,0>>, <<0,0,0-1,0>>, <<0,0,0,1>>>>

Mats == {IdentityM, ObliqueM, PerspM, FlipM}

Min(a, b) == IF a < b THEN a ELSE b
Max(a, b) == IF a > b THEN a ELSE b

\* vec[i] of a std::vector<double>, i counted from 0: a read at or past the
\* end is undefined behaviour and returns whatever lies there
Rd(vec, i) == IF i < Len(vec) THEN vec[i + 1] ELSE junk

---------------------------------------------------------------------------
(* Fragment (fragment.h): only the points a fragment type uses are kept *)

ZeroVec3 == <<0, 0, 0>>

LineSegFragment(o, p0, p1, idx) ==
  [type |-> "FR_LINESEG", points |-> <<p0, p1>>, index |-> idx,
   object |-> o.id, surfaceprop |-> "null", lineprop |-> o.lineprop,
   pathsize |-> 0]

TriangleFragment(o, p0, p1, p2, idx) ==
  [type |-> "FR_TRIANGLE", points |-> <<p0, p1, p2>>, index |-> idx,
   object |-> o.id, surfaceprop |-> o.surfaceprop, lineprop |-> "null",
   pathsize |-> 0]

---------------------------------------------------------------------------
(* PolyLine *)

NewPolyLine(ident, lp) ==
  [kind |-> "PolyLine", id |-> ident, points |-> <<>>, lineprop |-> lp]

RECURSIVE AddPointsLoop(_, _, _, _, _, _)
AddPointsLoop(pts, x, y, z, i, size) ==
  IF i >= size THEN pts
  ELSE AddPointsLoop(Append(pts, Vec3(Rd(x, i), Rd(y, i), Rd(z, i))),
                     x, y, z, i + 1, size)

PolyLine_addPoints(o, x, y, z) ==
  [o EXCEPT !.points =
     AddPointsLoop(o.points, x, y, z, 0, Min(Len(x), Min(Len(y), Len(z))))]

\* PolyLineLoop with the previous point kept across a skipped point, so that
\* the neighbours of a non-finite point are joined
RECURSIVE PolyLineLoopJoin(_, _, _, _, _)
PolyLineLoopJoin(o, m, i, p0, vec) ==
  IF i >= Len(o.points) THEN vec
  ELSE LET n0 == Proj(m, o.points[i + 1])
       IN IF ~VecIsFinite(n0) /\ i > 0
          THEN PolyLineLoopJoin(o, m, i + 1, p0, vec)
          ELSE PolyLineLoopJoin(o, m, i + 1, n0,
                 IF i > 0 /\ VecIsFinite(VecAdd(n0, p0))
                 THEN Append(vec, LineSegFragment(o, n0, p0, i))
                 ELSE vec)

\* the loop of PolyLine::getFragments from iteration i on; p0 is f.points[0]
RECURSIVE PolyLineLoop(_, _, _, _, _)
PolyLineLoop(o, m, i, p0, vec) ==
  IF i >= Len(o.points) THEN vec
  ELSE LET n1 == p0
           n0 == Proj(m, o.points[i + 1])
       IN PolyLineLoop(o, m, i + 1, n0,
            IF i > 0 /\ VecIsFinite(VecAdd(n0, n1))
            THEN Append(vec, LineSegFragment(o, n0, n1, i))
            ELSE vec)

PolyLine_getFragments(o, m, vec) == PolyLineLoop(o, m, 0, ZeroVec3, vec)

---------------------------------------------------------------------------
(* LineSegments *)

RECURSIVE LineSegments6Loop(_, _, _, _, _, _, _, _, _)
LineSegments6Loop(pts, x1, y1, z1, x2, y2, z2, i, size) ==
  IF i >= size THEN pts
  ELSE LineSegments6Loop(
         Append(Append(pts, Vec3(Rd(x1, i), Rd(y1, i), Rd(z1, i))),
                Vec3(Rd(x2, i), Rd(y2, i), Rd(z2, i))),
         x1, y1, z1, x2, y2, z2, i + 1, size)

\* LineSegments(x1, y1, z1, x2, y2, z2, prop)
LineSegments_fromArrays(ident, x1, y1, z1, x2, y2, z2, lp) ==
  [kind |-> "LineSegments", id |-> ident, lineprop |-> lp,
   points |-> LineSegments6Loop(<<>>, x1, y1, z1, x2, y2, z2, 0,
                Min(Min(Len(x1), Min(Len(y1), Len(z1))),
                    Min(Len(x2), Min(Len(y2), Len(z2)))))]

RECURSIVE LineSegmentsPackedLoop(_, _, _, _, _)
LineSegmentsPackedLoop(pts, pts1, pts2, i, size) ==
  IF i >= size THEN pts
  ELSE LineSegmentsPackedLoop(
         Append(Append(pts, Vec3(Rd(pts1, i), Rd(pts1, i + 1), Rd(pts1, i + 2))),
                Vec3(Rd(pts2, i), Rd(pts2, i + 1), Rd(pts2, i + 2))),
         pts1, pts2, i + 3, size)

\* LineSegments(pts1, pts2, prop): packed x,y,z triples
LineSegments_fromPacked(ident, pts1, pts2, lp) ==
  [kind |-> "LineSegments", id |-> ident, lineprop |-> lp,
   points |-> LineSegmentsPackedLoop(<<>>, pts1, pts2, 0,
                                     Min(Len(pts1), Len(pts2)))]

\* the indices i the packed constructor's loop takes: 0, 3, 6, ... below size
PackedLoopIdxs(pts1, pts2) ==
  {i \in 0..Min(Len(pts1), Len(pts2)) :
     i < Min(Len(pts1), Len(pts2)) /\ i % 3 = 0}

\* the packed constructor reads pts1 or pts2 at or past its end
LineSegments_fromPackedOob(pts1, pts2) ==
  \E i \in PackedLoopIdxs(pts1, pts2) :
    i + 2 >= Len(pts1) \/ i + 2 >= Len(pts2)

RECURSIVE LineSegmentsLoop(_, _, _, _)
LineSegmentsLoop(o, m, i, vec) ==
  IF i >= Len(o.points) THEN vec
  ELSE LineSegmentsLoop(o, m, i + 2,
         Append(vec, LineSegFragment(o, Proj(m, o.points[i + 1]),
                                     Proj(m, o.points[i + 2]), i)))

LineSegments_getFragments(o, m, vec) == LineSegmentsLoop(o, m, 0, vec)

---------------------------------------------------------------------------
(* Mesh *)

\* Mesh::getVecIdxs: <<vidx_h, vidx_1, vidx_2>>
getVecIdxs(o) ==
  CASE o.dirn = "Y_DIRN" -> <<1, 2, 0>>
    [] o.dirn = "Z_DIRN" -> <<2, 0, 1>>
    [] OTHER -> <<0, 1, 2>>

\* p(idx) = val, idx counted from 0
SetC(p, idx, val) == [p EXCEPT ![idx + 1] = val]

\* the index into heights read by the line walk at (stepindex, consti, stepi)
MeshLineHIdx(o, stepindex, consti, stepi) ==
  IF stepindex = 0 THEN stepi * Len(o.pos2) + consti
  ELSE consti * Len(o.pos2) + stepi

\* the point pt of the line walk at (stepindex, consti, stepi)
MeshLinePt(o, stepindex, consti, stepi) ==
  LET vi == getVecIdxs(o)
      vec_step == IF stepindex = 0 THEN o.pos1 ELSE o.pos2
      vec_const == IF stepindex = 0 THEN o.pos2 ELSE o.pos1
      vidx_step == IF stepindex = 0 THEN vi[2] ELSE vi[3]
      vidx_const == IF stepindex = 0 THEN vi[3] ELSE vi[2]
  IN SetC(SetC(SetC(<<0, 0, 0, 1>>, vidx_const, Rd(vec_const, consti)),
               vidx_step, Rd(vec_step, stepi)),
          vi[1], Rd(o.heights, MeshLineHIdx(o, stepindex, consti, stepi)))

\* The loops of Mesh::getLineFragments.  st holds the state they carry:
\* [vec: the output, p0: fl.points[0], index: fl.index].
\* The loop over stepi:
RECURSIVE MeshStepLoop(_, _, _, _, _, _)
MeshStepLoop(o, m, stepindex, consti, stepi, st) ==
  IF stepi >= (IF stepindex = 0 THEN Len(o.pos1) ELSE Len(o.pos2)) THEN st
  ELSE LET n1 == st.p0
           Step(n0) ==
             [vec |-> IF stepi > 0 /\ VecIsFinite(VecAdd(n0, n1))
                      THEN Append(st.vec, LineSegFragment(o, n0, n1, st.index))
                      ELSE st.vec,
              p0 |-> n0, index |-> st.index + 1]
       IN Then(Then(vec4to3(MatVec(m, MeshLinePt(o, stepindex, consti, stepi))), Step),
               LAMBDA nst : MeshStepLoop(o, m, stepindex, consti, stepi + 1, nst))

\* the loop over consti
RECURSIVE MeshConstLoop(_, _, _, _, _)
MeshConstLoop(o, m, stepindex, consti, st) ==
  IF consti >= (IF stepindex = 0 THEN Len(o.pos2) ELSE Len(o.pos1)) THEN st
  ELSE Then(MeshStepLoop(o, m, stepindex, consti, 0, st),
            LAMBDA nst : MeshConstLoop(o, m, stepindex, consti + 1, nst))

\* the loop over stepindex
MeshLineLoop(o, m, st) ==
  MeshConstLoop(o, m, 1, 0, MeshConstLoop(o, m, 0, 0, st))

\* the line walks with a running index that goes on from the output's length
Mesh_getLineFragmentsRunOn(o, m, vec) ==
  IF o.lineprop = "null" THEN vec
  ELSE MeshLineLoop(o, m, [vec |-> vec, p0 |-> ZeroVec3, index |-> Len(vec)]).vec

Mesh_getLineFragments(o, m, vec) ==
  IF o.lineprop = "null" THEN vec
  ELSE MeshLineLoop(o, m, [vec |-> vec, p0 |-> ZeroVec3, index |-> 0]).vec

\* tidxs with the same diagonal split for both parities
tidxsSame == <<<< <<0,1,2>>, <<3,1,2>> >>, << <<0,1,2>>, <<3,1,2>> >>>>

\* tidxs[(i1+i2)%2][tri]: corner indices of the two triangles of a cell
tidxs == <<<< <<0,1,2>>, <<3,1,2>> >>, << <<1,0,3>>, <<2,0,3>> >>>>

\* corner i (0..3) of cell (i1, i2): p[i] before projection
MeshCorner(o, i1, i2, i) ==
  LET vi == getVecIdxs(o)
      j1 == i1 + (i % 2)
      j2 == i2 + (i \div 2)
  IN SetC(SetC(SetC(<<0, 0, 0, 1>>, vi[1], Rd(o.heights, j1 * Len(o.pos2) + j2)),
               vi[2], Rd(o.pos1, j1)),
          vi[3], Rd(o.pos2, j2))

\* the two triangles of one cell appended to vec
MeshCellTris(o, m, i1, i2, index, vec) ==
  LET c(i) == MeshCorner(o, i1, i2, i)
      Tris(p) ==
        LET Tri(pproj, tri, w) ==
              LET idxs == tidxs[((i1 + i2) % 2) + 1][tri + 1]
                  a == idxs[1] + 1
                  b == idxs[2] + 1
                  d == idxs[3] + 1
              IN IF VecIsFinite(Vec4Add(Vec4Add(p[a], p[b]), p[d]))
                 THEN Append(w, TriangleFragment(o, pproj[a], pproj[b], pproj[d], index))
                 ELSE w
        IN Then(<<vec4to3(MatVec(m, p[1])), vec4to3(MatVec(m, p[2])),
                  vec4to3(MatVec(m, p[3])), vec4to3(MatVec(m, p[4]))>>,
                LAMBDA pproj : Tri(pproj, 1, Tri(pproj, 0, vec)))
  IN Then(<<c(0), c(1), c(2), c(3)>>, Tris)

\* The loops of Mesh::getSurfaceFragments; st is [vec: the output, index: fs.index].
\* The loop over i2:
RECURSIVE MeshSurfaceRow(_, _, _, _, _)
MeshSurfaceRow(o, m, i1, i2, st) ==
  IF i2 + 1 >= Len(o.pos2) THEN st
  ELSE Then([vec |-> MeshCellTris(o, m, i1, i2, st.index, st.vec),
             index |-> st.index + 1],
            LAMBDA nst : MeshSurfaceRow(o, m, i1, i2 + 1, nst))

\* the loop over i1
RECURSIVE MeshSurfaceLoop(_, _, _, _)
MeshSurfaceLoop(o, m, i1, st) ==
  IF i1 + 1 >= Len(o.pos1) THEN st
  ELSE Then(MeshSurfaceRow(o, m, i1, 0, st),
            LAMBDA nst : MeshSurfaceLoop(o, m, i1 + 1, nst))

Mesh_getSurfaceFragments(o, m, vec) ==
  IF o.surfaceprop = "null" THEN vec
  ELSE MeshSurfaceLoop(o, m, 0, [vec |-> vec, index |-> 0]).vec

Mesh_getFragments(o, m, vec) ==
  Mesh_getSurfaceFragments(o, m, Mesh_getLineFragments(o, m, vec))

\* Mesh::getLineFragments reads heights at or past its end
Mesh_getLineFragmentsOob(o) ==
  /\ o.lineprop # "null"
  /\ \E i1 \in 0..(Len(o.pos1) - 1), i2 \in 0..(Len(o.pos2) - 1) :
       i1 * Len(o.pos2) + i2 >= Len(o.heights)

\* Mesh::getSurfaceFragments reads heights at or past its end
Mesh_getSurfaceFragmentsOob(o) ==
  /\ o.surfaceprop # "null"
  /\ Len(o.pos1) >= 2 /\ Len(o.pos2) >= 2
  /\ \E j1 \in 0..(Len(o.pos1) - 1), j2 \in 0..(Len(o.pos2) - 1) :
       j1 * Len(o.pos2) + j2 >= Len(o.heights)

---------------------------------------------------------------------------
(* DataMesh *)

\* average ignoring non-finite values: one "if(isfinite(x)) { tot+=x; ++ct; }"
\* on acc = <<tot, ct>>
AverageStep(acc, x) ==
  IF IsFiniteD(x) THEN <<DAdd(acc[1], x), acc[2] + 1>> ELSE acc

average4(a, b, c, d) ==
  LET r == AverageStep(AverageStep(AverageStep(AverageStep(<<0, 0>>, a), b), c), d)
  IN DDiv(r[1], r[2])

average2(a, b) ==
  LET r == AverageStep(AverageStep(<<0, 0>>, a), b)
  IN DDiv(r[1], r[2])

MAXLINEIDX == 4

\* LineCellTracker(n1, n2): data, all 0
LineCellTracker(n1, n2) ==
  [n1 |-> n1, n2 |-> n2, data |-> [k \in 1..(n1 * n2 * MAXLINEIDX) |-> 0]]

\* the index into data with two entries for each grid point
LineCellIdxTwo(t, i1, i2, lineidx) == (i1 * t.n2 + i2) * 2 + lineidx

\* the index into data of line lineidx of grid point (i1, i2)
LineCellIdx(t, i1, i2, lineidx) == (i1 * t.n2 + i2) * MAXLINEIDX + lineidx

setLine(t, i1, i2, lineidx) ==
  [t EXCEPT !.data[LineCellIdx(t, i1, i2, lineidx) + 1] = 1]

isLineSet(t, i1, i2, lineidx) == t.data[LineCellIdx(t, i1, i2, lineidx) + 1] # 0

\* the corner index tables, entries counted from 0
trilist_highres ==
  <<<<8,0,1>>, <<8,1,2>>, <<8,2,3>>, <<8,3,4>>, <<8,4,5>>, <<8,5,6>>, <<8,6,7>>, <<8,7,0>>>>
trilist_lowres1 == <<<<0,2,4>>, <<0,6,4>>>>
\* the second low resolution list with the split of the first
trilist_lowres2AsFirst == <<<<0,2,4>>, <<0,6,4>>>>
trilist_lowres2 == <<<<2,0,6>>, <<2,4,6>>>>
linelist_lowres == <<<<0,2>>, <<0,6>>, <<4,2>>, <<4,6>>>>
linelist_highres ==
  <<<<0,1>>, <<1,2>>, <<2,3>>, <<3,4>>, <<4,5>>, <<5,6>>, <<6,7>>, <<7,0>>>>

\* linecell_lowres with the last two lines keyed by their own grid point and
\* a line index of their own
linecell_lowresOwn == <<<<0,0,0>>, <<0,0,1>>, <<1,0,2>>, <<0,1,3>>>>

\* xidx, yidx, lineidx of every line of a cell
linecell_lowres == <<<<0,0,0>>, <<0,0,1>>, <<0,1,0>>, <<1,0,1>>>>
linecell_highres ==
  <<<<0,0,0>>, <<0,0,1>>, <<1,0,2>>, <<1,0,3>>, <<0,1,1>>, <<0,1,0>>, <<0,0,3>>, <<0,0,2>>>>

\* the check of the role indices that tests found[0] and found[1] only
DataMeshIdxsOkTwo(o) ==
  \A k \in 0..1 : \E i \in {o.idxval, o.idxedge1, o.idxedge2} : i <= 2 /\ i = k

\* "check indices": found[0], found[1] and found[2] are all set
DataMeshIdxsOk(o) ==
  \A k \in 0..2 : \E i \in {o.idxval, o.idxedge1, o.idxedge2} : i <= 2 /\ i = k

\* "check that data sizes agree", in int arithmetic
DataMeshSizeOk(o) == (Len(o.edges1) - 1) * (Len(o.edges2) - 1) = Len(o.vals)

\* what the call prints to stderr
DataMesh_stderr(o) ==
  IF ~DataMeshIdxsOk(o) THEN <<"DataMesh: invalid indices">>
  ELSE IF ~DataMeshSizeOk(o) THEN <<"DataMesh: invalid size">>
  ELSE <<>>

\* neigh[k] for cell (i1, i2): the value of the neighbouring cell, clipped
DataMeshNeigh(o, i1, i2, k) ==
  LET n1 == Len(o.edges1) - 1
      n2 == Len(o.edges2) - 1
      clip1 == Max(Min(i1 + (k \div 3) - 1, n1 - 1), 0)
      clip2 == Max(Min(i2 + (k % 3) - 1, n2 - 1), 0)
  IN Rd(o.vals, clip1 * n2 + clip2)

\* 0.5 * x
Half(x) == DDiv(x, 2)

\* corners[j] for cell (i1, i2)
DataMeshCorner(o, i1, i2, j) ==
  LET n(k) == DataMeshNeigh(o, i1, i2, k)
      h == CASE j = 0 -> average4(n(0), n(3), n(4), n(1))
             [] j = 1 -> average2(n(4), n(3))
             [] j = 2 -> average4(n(3), n(6), n(7), n(4))
             [] j = 3 -> average2(n(4), n(7))
             [] j = 4 -> average4(n(4), n(7), n(8), n(5))
             [] j = 5 -> average2(n(4), n(5))
             [] j = 6 -> average4(n(1), n(4), n(5), n(2))
             [] j = 7 -> average2(n(4), n(1))
             [] OTHER -> n(4)
      c1 == IF j \in {0, 6, 7} THEN Rd(o.edges1, i1)
            ELSE IF j \in {2, 3, 4} THEN Rd(o.edges1, i1 + 1)
            ELSE Half(DAdd(Rd(o.edges1, i1), Rd(o.edges1, i1 + 1)))
      c2 == IF j \in {0, 1, 2} THEN Rd(o.edges2, i2)
            ELSE IF j \in {4, 5, 6} THEN Rd(o.edges2, i2 + 1)
            ELSE Half(DAdd(Rd(o.edges2, i2), Rd(o.edges2, i2 + 1)))
  IN SetC(SetC(SetC(<<0, 0, 0, 1>>, o.idxval, h), o.idxedge1, c1), o.idxedge2, c2)

\* corners3: the 9 projected corners of cell (i1, i2)
DataMeshCorners3(o, m, i1, i2) ==
  LET c(j) == vec4to3(MatVec(m, DataMeshCorner(o, i1, i2, j)))
  IN <<c(0), c(1), c(2), c(3), c(4), c(5), c(6), c(7), c(8)>>

\* "draw triangles" of cell (i1, i2): the loop over i
RECURSIVE DataMeshTris(_, _, _, _, _, _)
DataMeshTris(o, corners3, i1, i2, i, vec) ==
  LET tris == IF o.highres THEN trilist_highres
              ELSE IF (i1 + i2) % 2 = 0 THEN trilist_lowres1 ELSE trilist_lowres2
  IN IF i >= Len(tris) THEN vec
     ELSE DataMeshTris(o, corners3, i1, i2, i + 1,
            Append(vec, TriangleFragment(o, corners3[tris[i + 1][1] + 1],
                                         corners3[tris[i + 1][2] + 1],
                                         corners3[tris[i + 1][3] + 1],
                                         i1 * (Len(o.edges2) - 1) + i2)))

\* "draw lines" of cell (i1, i2): the loop over i; st is [vec, linetracker]
RECURSIVE DataMeshLines(_, _, _, _, _, _)
DataMeshLines(o, corners3, i1, i2, i, st) ==
  LET lines == IF o.highres THEN linelist_highres ELSE linelist_lowres
      linecells == IF o.highres THEN linecell_highres ELSE linecell_lowres
  IN IF i >= Len(lines) THEN st
     ELSE LET lc == linecells[i + 1]
              p0 == corners3[lines[i + 1][1] + 1]
              p1 == corners3[lines[i + 1][2] + 1]
          IN Then(IF isLineSet(st.linetracker, i1 + lc[1], i2 + lc[2], lc[3]) THEN st
                  ELSE [vec |-> IF VecIsFinite(p0) /\ VecIsFinite(p1)
                                THEN Append(st.vec,
                                       LineSegFragment(o, p0, p1,
                                                       i1 * (Len(o.edges2) - 1) + i2))
                                ELSE st.vec,
                        linetracker |-> setLine(st.linetracker, i1 + lc[1],
                                                i2 + lc[2], lc[3])],
                  LAMBDA nst : DataMeshLines(o, corners3, i1, i2, i + 1, nst))

\* the body of the loop over the 2d array for cell (i1, i2)
DataMeshCell(o, m, i1, i2, st) ==
  IF ~IsFiniteD(Rd(o.vals, i1 * (Len(o.edges2) - 1) + i2)) THEN st
  ELSE LET Draw(corners3) ==
             Then([st EXCEPT !.vec = IF o.surfaceprop # "null"
                                     THEN DataMeshTris(o, corners3, i1, i2, 0, @)
                                     ELSE @],
                  LAMBDA tst : IF o.lineprop # "null"
                               THEN DataMeshLines(o, corners3, i1, i2, 0, tst)
                               ELSE tst)
       IN Then(DataMeshCorners3(o, m, i1, i2), Draw)

\* the loop over i2
RECURSIVE DataMeshRow(_, _, _, _, _)
DataMeshRow(o, m, i1, i2, st) ==
  IF i2 >= Len(o.edges2) - 1 THEN st
  ELSE Then(DataMeshCell(o, m, i1, i2, st),
            LAMBDA nst : DataMeshRow(o, m, i1, i2 + 1, nst))

\* the loop over i1
RECURSIVE DataMeshLoop(_, _, _, _)
DataMeshLoop(o, m, i1, st) ==
  IF i1 >= Len(o.edges1) - 1 THEN st
  ELSE Then(DataMeshRow(o, m, i1, 0, st),
            LAMBDA nst : DataMeshLoop(o, m, i1 + 1, nst))

DataMesh_getFragments(o, m, vec) ==
  IF ~DataMeshIdxsOk(o) \/ ~DataMeshSizeOk(o) THEN vec
  ELSE IF o.lineprop = "null" /\ o.surfaceprop = "null" THEN vec
  ELSE Then([vec |-> vec,
             linetracker |-> LineCellTracker(Len(o.edges1), Len(o.edges2))],
            LAMBDA st : DataMeshLoop(o, m, 0, st).vec)

---------------------------------------------------------------------------
(* Points, Text *)

\* a fragment of type FR_PATH; p1 stays at its default where only points[0]
\* is used
PathFragment(o, p0, p1, idx, size, sp, lp) ==
  [type |-> "FR_PATH", points |-> <<p0, p1>>, index |-> idx, object |-> o.id,
   surfaceprop |-> sp, lineprop |-> lp, pathsize |-> size]

RECURSIVE PointsLoop(_, _, _, _, _)
PointsLoop(o, m, i, size, vec) ==
  IF i >= size THEN vec
  ELSE LET p0 == vec4to3(MatVec(m, <<o.x[i + 1], o.y[i + 1], o.z[i + 1], 1>>))
           pathsize == IF o.sizes # <<>> THEN o.sizes[i + 1] ELSE 1
       IN PointsLoop(o, m, i + 1, size,
            IF VecIsFinite(p0)
            THEN Append(vec, PathFragment(o, p0, ZeroVec3, i, pathsize,
                                          o.surfacefill, o.lineedge))
            ELSE vec)

Points_getFragments(o, m, vec) ==
  LET size3 == Min(Len(o.x), Min(Len(o.y), Len(o.z)))
      size == IF o.sizes # <<>> THEN Min(size3, Len(o.sizes)) ELSE size3
  IN PointsLoop(o, m, 0, size, vec)

NewText(ident, pos1, pos2) == [kind |-> "Text", id |-> ident, pos1 |-> pos1, pos2 |-> pos2]

RECURSIVE TextLoop(_, _, _, _, _)
TextLoop(o, m, i, numitems, vec) ==
  IF i >= numitems THEN vec
  ELSE LET base == i * 3
           pt1 == <<Rd(o.pos1, base), Rd(o.pos1, base + 1), Rd(o.pos1, base + 2), 1>>
           pt2 == <<Rd(o.pos2, base), Rd(o.pos2, base + 1), Rd(o.pos2, base + 2), 1>>
       IN TextLoop(o, m, i + 1, numitems,
            Append(vec, PathFragment(o, vec4to3(MatVec(m, pt1)),
                                     vec4to3(MatVec(m, pt2)), i, 1, "null", "null")))

Text_getFragments(o, m, vec) ==
  TextLoop(o, m, 0, Min(Len(o.pos1), Len(o.pos2)) \div 3, vec)

---------------------------------------------------------------------------
(* AxisTickLabels *)

NewAxisTickLabels(ident, box1, box2, tickfracs) ==
  [kind |-> "AxisTickLabels", id |-> ident, box1 |-> box1, box2 |-> box2,
   tickfracs |-> tickfracs, starts |-> <<>>, ends |-> <<>>]

AxisTickLabels_addAxisChoice(o, start, end) ==
  [o EXCEPT !.starts = Append(@, start), !.ends = Append(@, end)]

\* twodLineIntersect(p1, p2, q1, q2) == LINE_CROSS (twod.h): the segments
\* cross strictly, each having its ends strictly on opposite sides of the
\* other. Side2 is the side of c relative to the line from a to b: its sign is
\* exact for finite points, and no side at all (NaN) otherwise
Side2(a, b, c) ==
  IF \A p \in {a, b, c} : IsFiniteD(p[1]) /\ IsFiniteD(p[2])
  THEN (b[1] - a[1]) * (c[2] - a[2]) - (b[2] - a[2]) * (c[1] - a[1])
  ELSE NaN

Opposite(s, t) == (DLt(s, 0) /\ DGt(t, 0)) \/ (DGt(s, 0) /\ DLt(t, 0))

twodLineCross(p1, p2, q1, q2) ==
  /\ Opposite(Side2(p1, p2, q1), Side2(p1, p2, q2))
  /\ Opposite(Side2(q1, q2, p1), Side2(q1, q2, p2))

\* does the line overlap with the face in 2d?
faceOverlap(linepts, facepts) ==
  \E edge \in 0..3 :
    twodLineCross(linepts[1], linepts[2], facepts[edge + 1],
                  facepts[((edge + 1) % 4) + 1])

\* scenecorners[k], k = i2 + i1*2 + i0*4
AxisSceneCorners(o, m) ==
  LET boxpts == <<o.box1, o.box2>>
      c(k) == Proj(m, <<boxpts[(k \div 4) + 1][1], boxpts[((k \div 2) % 2) + 1][2],
                        boxpts[(k % 2) + 1][3]>>)
  IN <<c(0), c(1), c(2), c(3), c(4), c(5), c(6), c(7)>>

\* point indices for faces of cube
faces ==
  <<<<0,1,3,2>>, <<4,5,7,6>>, <<0,1,5,4>>, <<2,3,7,6>>, <<0,4,6,2>>, <<1,5,7,3>>>>

\* the overlap flag of axis after the loop over the faces
AxisOverlaps(o, m, scenecorners, axis) ==
  LET linepts == <<vec3to2(Proj(m, o.starts[axis + 1])),
                   vec3to2(Proj(m, o.ends[axis + 1]))>>
  IN \E face \in 1..6 :
       faceOverlap(linepts, [k \in 1..4 |-> vec3to2(scenecorners[faces[face][k] + 1])])

\* axchoices with the test of the overlap flag inverted
AxisChoicesInverted(o, m, scenecorners) ==
  LET all == [a \in 1..Min(Len(o.starts), Len(o.ends)) |-> a - 1]
      free == SelectSeq(all, LAMBDA a : AxisOverlaps(o, m, scenecorners, a))
  IN IF free = <<>> THEN all ELSE free

\* axchoices: the axes which don't overlap with faces in 2D; all if none
AxisChoices(o, m, scenecorners) ==
  LET all == [a \in 1..Min(Len(o.starts), Len(o.ends)) |-> a - 1]
      free == SelectSeq(all, LAMBDA a : ~AxisOverlaps(o, m, scenecorners, a))
  IN IF free = <<>> THEN all ELSE free

\* centx, centy, centz
RECURSIVE AxisCentreSum(_, _, _, _)
AxisCentreSum(scenecorners, d, i, tot) ==
  IF i >= 8 THEN tot
  ELSE AxisCentreSum(scenecorners, d, i + 1, DAdd(tot, scenecorners[i + 1][d]))

AxisCentre(scenecorners) ==
  [d \in 1..3 |-> DDiv(AxisCentreSum(scenecorners, d, 0, 0), 8)]

\* 1 for true and 0 for false, as a bool converts to int
BoolInt(b) == IF b THEN 1 ELSE 0

\* the score with one bit for each preference
AxisScoreBits(o, m, cent, choice) ==
  LET s == Proj(m, o.starts[choice + 1])
      e == Proj(m, o.ends[choice + 1])
      av == [d \in 1..3 |-> Half(DAdd(s[d], e[d]))]
  IN BoolInt(DLe(av[1], cent[1])) * 1 + BoolInt(DGt(av[2], cent[2])) * 2
       + BoolInt(DGt(av[3], cent[3])) * 4

\* the score of an axis choice
AxisScore(o, m, cent, choice) ==
  LET s == Proj(m, o.starts[choice + 1])
      e == Proj(m, o.ends[choice + 1])
      av == [d \in 1..3 |-> Half(DAdd(s[d], e[d]))]
  IN BoolInt(DLe(av[1], cent[1])) * 10 + BoolInt(DGt(av[2], cent[2])) * 11
       + BoolInt(DGt(av[3], cent[3])) * 12

\* the loop over axchoices; best is <<bestscore, bestaxis>>
RECURSIVE AxisBestLoop(_, _, _, _, _, _)
AxisBestLoop(o, m, cent, axchoices, i, best) ==
  IF i > Len(axchoices) THEN best
  ELSE LET score == AxisScore(o, m, cent, axchoices[i])
       IN AxisBestLoop(o, m, cent, axchoices, i + 1,
            IF score > best[1] THEN <<score, axchoices[i]>> ELSE best)

\* bestaxis
AxisBest(o, m) ==
  LET scenecorners == AxisSceneCorners(o, m)
  IN AxisBestLoop(o, m, AxisCentre(scenecorners),
                  AxisChoices(o, m, scenecorners), 1, <<0 - 1, 0>>)[2]

\* 1/1e-3
TickStepInv == 1000

\* the fragments for the ticks of axis bestaxis
RECURSIVE AxisTicksLoop(_, _, _, _, _)
AxisTicksLoop(o, m, bestaxis, i, vec) ==
  IF i >= Len(o.tickfracs) THEN vec
  ELSE LET axstart == o.starts[bestaxis + 1]
           delta == VecSub(o.ends[bestaxis + 1], axstart)
           f == o.tickfracs[i + 1]
           p1 == VecAdd(axstart, VecScale(delta, f))
           p2 == VecAdd(axstart,
                   [d \in 1..3 |-> DAdd(DMul(delta[d], f), DDiv(delta[d], TickStepInv))])
       IN AxisTicksLoop(o, m, bestaxis, i + 1,
            Append(vec, PathFragment(o, Proj(m, p1), Proj(m, p2), i, 1, "null", "null")))

AxisTickLabels_getFragments(o, m, vec) ==
  IF Min(Len(o.starts), Len(o.ends)) = 0 THEN vec
  ELSE AxisTicksLoop(o, m, AxisBest(o, m), 0, vec)

---------------------------------------------------------------------------
(* Triangle, TriangleFacing, ObjectContainer, FacingContainer *)

Triangle_getFragments(o, m, vec) ==
  Append(vec, TriangleFragment(o, Proj(m, o.points[1]), Proj(m, o.points[2]),
                               Proj(m, o.points[3]), 0))

\* the test of TriangleFacing and FacingContainer with >= for >
FacingOrLevel(m, norm) == DLe(Proj(m, ZeroVec3)[3], Proj(m, norm)[3])

\* norm points towards +z: tnorm(2) > torigin(2)
Facing(m, norm) == DGt(Proj(m, norm)[3], Proj(m, ZeroVec3)[3])

TriangleFacing_getFragments(o, m, vec) ==
  LET norm == cross(VecSub(o.points[2], o.points[1]), VecSub(o.points[3], o.points[1]))
  IN IF Facing(m, norm) THEN Triangle_getFragments(o, m, vec) ELSE vec

\* what a call has done so far: the caller's vector, whether an array was
\* read past its end, the lines printed
CallState(vec) == [vec |-> vec, oob |-> FALSE, log |-> <<>>]

\* objects[i]->getFragments(m, v): the call of the virtual function
RECURSIVE ObjGetFragments(_, _, _)

\* the loop of ObjectContainer::getFragments over the objects from the last
\* to the first
RECURSIVE ContainerLoopBackwards(_, _, _, _)
ContainerLoopBackwards(o, totM, i, st) ==
  IF i >= Len(o.objects) THEN st
  ELSE Then(ObjGetFragments(o.objects[Len(o.objects) - i], totM, st),
            LAMBDA nst : ContainerLoopBackwards(o, totM, i + 1, nst))

\* the loop of ObjectContainer::getFragments from object i on
RECURSIVE ContainerLoop(_, _, _, _)
ContainerLoop(o, totM, i, st) ==
  IF i >= Len(o.objects) THEN st
  ELSE Then(ObjGetFragments(o.objects[i + 1], totM, st),
            LAMBDA nst : ContainerLoop(o, totM, i + 1, nst))

ObjectContainer_getFragments(o, m, st) ==
  Then(MatMul(m, o.objM), LAMBDA totM : ContainerLoop(o, totM, 0, st))

FacingContainer_getFragments(o, m, st) ==
  IF Facing(m, o.norm) THEN ObjectContainer_getFragments(o, m, st) ELSE st

ObjGetFragments(o, m, st) ==
  CASE o.kind = "Triangle" -> [st EXCEPT !.vec = Triangle_getFragments(o, m, @)]
    [] o.kind = "TriangleFacing" ->
         [st EXCEPT !.vec = TriangleFacing_getFragments(o, m, @)]
    [] o.kind = "PolyLine" -> [st EXCEPT !.vec = PolyLine_getFragments(o, m, @)]
    [] o.kind = "LineSegments" ->
         [st EXCEPT !.vec = LineSegments_getFragments(o, m, @)]
    [] o.kind = "Mesh" ->
         [st EXCEPT !.vec = Mesh_getFragments(o, m, @),
                    !.oob = @ \/ Mesh_getLineFragmentsOob(o)
                              \/ Mesh_getSurfaceFragmentsOob(o)]
    [] o.kind = "DataMesh" ->
         [st EXCEPT !.vec = DataMesh_getFragments(o, m, @),
                    !.log = @ \o DataMesh_stderr(o)]
    [] o.kind = "Points" -> [st EXCEPT !.vec = Points_getFragments(o, m, @)]
    [] o.kind = "Text" -> [st EXCEPT !.vec = Text_getFragments(o, m, @)]
    [] o.kind = "AxisTickLabels" ->
         [st EXCEPT !.vec = AxisTickLabels_getFragments(o, m, @)]
    [] o.kind = "ObjectContainer" -> ObjectContainer_getFragments(o, m, st)
    [] o.kind = "FacingContainer" -> FacingContainer_getFragments(o, m, st)
    [] OTHER -> st

\* the object o after getFragments(m, v): the members the call has written.
\* Points writes its fragparams; a container is changed in the children it
\* has called.
RECURSIVE ObjAfter(_, _)
ObjAfter(o, m) ==
  CASE o.kind = "Points" ->
         [o EXCEPT !.fragparams = [path |-> "path", scaleedges |-> o.scaleedges,
                                   runcallback |-> 0]]
    [] o.kind = "ObjectContainer" \/ (o.kind = "FacingContainer" /\ Facing(m, o.norm)) ->
         [o EXCEPT !.objects =
            [i \in 1..Len(o.objects) |-> ObjAfter(o.objects[i], MatMul(m, o.objM))]]
    [] OTHER -> o

---------------------------------------------------------------------------
(* The caller: constructs an object, then calls getFragments on it *)

NoObject == [kind |-> "none"]

\* a fragment some earlier object left in the caller's vector
OtherFragment ==
  [type |-> "FR_TRIANGLE", points |-> <<ZeroVec3, ZeroVec3, ZeroVec3>>,
   index |-> 0, object |-> "other", surfaceprop |-> "sp", lineprop |-> "null",
   pathsize |-> 0]

InitVecs == {<<>>, <<OtherFragment>>}

JunkVals == {7, NaN}

\* the part of an initial state that does not depend on the object
InitCaller(n) ==
  /\ v \in InitVecs
  /\ prev = v
  /\ outerM = IdentityM
  /\ calls = 0
  /\ left = n
  /\ junk \in JunkVals
  /\ oob = FALSE
  /\ log = <<>>

\* a constructor or an add operation: obj becomes o; past says whether it
\* read an array past its end
Construct(o, past) ==
  /\ calls = 0
  /\ obj' = o
  /\ oob' = (oob \/ past)
  /\ UNCHANGED <<v, prev, outerM, calls, left, junk, log>>

\* a getFragments call with transform m that leaves the object as o and newv
\* in the vector, and prints printed
CallChanging(m, o, newv, past, printed) ==
  /\ left > 0
  /\ outerM' = m
  /\ prev' = v
  /\ v' = newv
  /\ obj' = o
  /\ calls' = calls + 1
  /\ left' = left - 1
  /\ oob' = (oob \/ past)
  /\ log' = log \o printed
  /\ UNCHANGED junk

\* a getFragments call that writes no member of the object
CallPrinting(m, newv, past, printed) == CallChanging(m, obj, newv, past, printed)

\* a getFragments call that prints nothing
Call(m, newv, past) == CallPrinting(m, newv, past, <<>>)

\* the fragments the last call appended
Appended == SubSeq(v, Len(prev) + 1, Len(v))

---------------------------------------------------------------------------
(* PolyLine and Mesh: the inputs and the actions *)

\* x of up to 2 values, among them the largest double and one that is not a
\* number; y and z of other lengths
PolyLineAddPoints ==
  /\ obj.kind = "PolyLine"
  /\ \E x \in UNION {[1..n -> {0, 2, DMax, NaN}] : n \in 0..2},
        y \in {<<0>>, <<0, 0>>, <<0, 0, 0>>},
        z \in {<<0, 0>>, <<0, 1>>, <<1, 0>>} :
       /\ Len(obj.points) + Min(Len(x), Min(Len(y), Len(z))) <= MaxPts
       /\ Construct(PolyLine_addPoints(obj, x, y, z), FALSE)

PolyLineGetFragments ==
  /\ obj.kind = "PolyLine"
  /\ \E m \in Mats : Call(m, PolyLine_getFragments(obj, m, v), FALSE)

\* coordinate arrays 0, 2, 4, ... of length n
BasePos(n) == [i \in 1..n |-> 2 * (i - 1)]
\* height arrays 12, 24, 36, ... of length n
BaseHeights(n) == [k \in 1..n |-> 12 * k]

\* heights for an n1 x n2 grid: the base, the base with one value NaN, all
\* DMax, and the base one element short
HeightArrs(n1, n2) ==
  {BaseHeights(n1 * n2), [k \in 1..(n1 * n2) |-> DMax]}
  \cup {[BaseHeights(n1 * n2) EXCEPT ![k] = NaN] : k \in 1..(n1 * n2)}
  \cup {BaseHeights(n1 * n2 - 1) : k \in 1..(n1 * n2)}

MeshStyles == {<<"lp", "sp">>, <<"lp", "null">>, <<"null", "sp">>}

MeshesOf(n1, n2) ==
  {[kind |-> "Mesh", id |-> "mesh", pos1 |-> BasePos(n1), pos2 |-> BasePos(n2),
    heights |-> h, dirn |-> d, lineprop |-> st[1], surfaceprop |-> st[2]] :
     h \in HeightArrs(n1, n2), d \in {"X_DIRN", "Y_DIRN", "Z_DIRN"},
     st \in MeshStyles}

Meshes ==
  UNION {MeshesOf(g[1], g[2]) :
           g \in {h \in (0..MaxGrid) \X (0..MaxGrid) : h[1] * h[2] <= MaxHeights}}

MeshGetFragments ==
  /\ obj.kind = "Mesh"
  /\ \E m \in Mats :
       Call(m, Mesh_getFragments(obj, m, v),
            Mesh_getLineFragmentsOob(obj) \/ Mesh_getSurfaceFragmentsOob(obj))

\* the value of an out-of-range read varies where one happens
InitLine ==
  /\ obj \in {NewPolyLine("polyline", "lp")} \cup Meshes
  /\ InitCaller(1)
  /\ \/ junk = 7
     \/ obj.kind = "Mesh" /\ Len(obj.heights) < Len(obj.pos1) * Len(obj.pos2)

NextLine == PolyLineAddPoints \/ PolyLineGetFragments \/ MeshGetFragments

SpecLine == InitLine /\ [][NextLine]_vars

---------------------------------------------------------------------------
(* DataMesh: the inputs and the actions *)

\* role indices: the permutations of 0, 1, 2 and every other triple over 0..3
IdxTriples == (0..3) \X (0..3) \X (0..3)

\* edges1 of length n: the base, and for n = 2 one with a NaN
Edges1Arrs(n) == {BasePos(n)} \cup (IF n = 2 THEN {<<0, NaN>>} ELSE {})

\* cell values for edges of lengths l1, l2: with the matching length n the
\* base, all DMax and the base with one NaN; the base one longer or shorter
ValArrs(l1, l2) ==
  LET n == (l1 - 1) * (l2 - 1)
  IN IF n < 0 THEN {BaseHeights(0), BaseHeights(1)}
     ELSE {h \in {BaseHeights(n), [k \in 1..n |-> DMax], BaseHeights(n + 1)}
                   \cup {[BaseHeights(n) EXCEPT ![k] = NaN] : k \in 1..n}
                   \cup {BaseHeights(n - 1) : k \in 1..n} :
             Len(h) <= MaxVals}

DataMeshOf(t, edges1, edges2, vals, hr, st) ==
  [kind |-> "DataMesh", id |-> "datamesh", edges1 |-> edges1, edges2 |-> edges2,
   vals |-> vals, idxval |-> t[1], idxedge1 |-> t[2], idxedge2 |-> t[3],
   highres |-> hr, lineprop |-> st[1], surfaceprop |-> st[2]]

\* every triple of role indices on one cell, the permutations on every grid
DataMeshes ==
  {DataMeshOf(t, <<0, 2>>, <<0, 2>>, <<12>>, FALSE, <<"lp", "sp">>) : t \in IdxTriples}
  \cup UNION {
    {DataMeshOf(t, e1, BasePos(l[2]), vals, hr, st) :
       t \in {p \in IdxTriples : {p[1], p[2], p[3]} = {0, 1, 2}},
       e1 \in Edges1Arrs(l[1]), vals \in ValArrs(l[1], l[2]),
       hr \in BOOLEAN, st \in MeshStyles \cup {<<"null", "null">>}} :
    l \in (0..MaxGrid) \X (0..MaxGrid)}

DataMeshGetFragments ==
  /\ obj.kind = "DataMesh"
  /\ \E m \in Mats :
       CallPrinting(m, DataMesh_getFragments(obj, m, v), FALSE, DataMesh_stderr(obj))

InitDataMesh ==
  /\ obj \in DataMeshes
  /\ InitCaller(1)
  /\ junk = 7

NextDataMesh == DataMeshGetFragments

SpecDataMesh == InitDataMesh /\ [][NextDataMesh]_vars

---------------------------------------------------------------------------
(* AxisTickLabels: the inputs and the actions *)

\* candidate axes <<start, end>>: edges of the cube from the origin to
\* (1000, 1000, 1000), whose 1000th part is a whole number
AxisEdges ==
  {<<<<1000, 0, 1000>>, <<1000, 1000, 1000>>>>,
   <<<<0, 1000, 0>>, <<0, 1000, 1000>>>>,
   <<<<0, 0, 0>>, <<1000, 0, 0>>>>,
   <<<<0, 1000, 0>>, <<1000, 1000, 0>>>>}


AxisTickLabelsObjs ==
  {NewAxisTickLabels("axis", <<0, 0, 0>>, <<1000, 1000, 1000>>, tf) :
     tf \in {<<>>, <<0, 1>>, <<NaN>>}}

AxisAddAxisChoice ==
  /\ obj.kind = "AxisTickLabels"
  /\ Len(obj.starts) < MaxAxes
  /\ \E e \in AxisEdges : Construct(AxisTickLabels_addAxisChoice(obj, e[1], e[2]), FALSE)

AxisTickLabelsGetFragments ==
  /\ obj.kind = "AxisTickLabels"
  /\ \E m \in Mats : Call(m, AxisTickLabels_getFragments(obj, m, v), FALSE)

InitAxis ==
  /\ obj \in AxisTickLabelsObjs
  /\ InitCaller(1)
  /\ junk = 7

NextAxis == AxisAddAxisChoice \/ AxisTickLabelsGetFragments

SpecAxis == InitAxis /\ [][NextAxis]_vars

---------------------------------------------------------------------------
(* A scene of any kind of object: the inputs and the actions *)

TriangleOf(kind, ident, points) ==
  [kind |-> kind, id |-> ident, points |-> points, surfaceprop |-> "sp"]

\* triangles whose normal is (0, 0, 4) and (4, 0, 0), and facing triangles
\* whose normal is one of these, (0, 0, -4) or not a number
Triangles ==
  LET flat == <<<<0, 0, 0>>, <<2, 0, 0>>, <<0, 2, 0>>>>
      upright == <<<<0, 0, 0>>, <<0, 2, 0>>, <<0, 0, 2>>>>
  IN {TriangleOf("Triangle", "triangle", p) : p \in {flat, upright}}
     \cup {TriangleOf("TriangleFacing", "facing", p) :
             p \in {flat, upright, <<<<0, 0, 0>>, <<0, 2, 0>>, <<2, 0, 0>>>>,
                    <<<<0, 0, 0>>, <<NaN, 0, 0>>, <<0, 2, 0>>>>}}

\* fragparams is written by getFragments only and holds no value before
PointsOf(x, sizes) ==
  [kind |-> "Points", id |-> "points", x |-> x, y |-> <<0, 0>>, z |-> <<0, 0, 0>>,
   sizes |-> sizes, surfacefill |-> "sp", lineedge |-> "lp", scaleedges |-> TRUE,
   fragparams |-> [path |-> "unset", scaleedges |-> "unset", runcallback |-> "unset"]]

PointsObjs ==
  {PointsOf(x, s) : x \in {<<>>, <<2>>, <<0, NaN>>, <<2, 0, 2>>},
                    s \in {<<>>, <<3>>, <<3, 4>>}}

Texts ==
  {NewText("text", p1, p2) :
     p1 \in {<<0, 0>>, <<0, 0, 0>>, <<0, 0, 0, 2>>, <<NaN, 0, 0, 0, 2, 0>>},
     p2 \in {<<2, 0, 0>>, <<2, 0, 0, 2, 2, 2>>}}

\* packed x, y, z triples, whole and with a triple cut short
PackedArrs == {<<0, 0, 0>>, <<2, 0, 0, 2, 2, 0>>, <<NaN, 0, 0>>, <<0, 0, 0, 2>>, <<2>>}

ObjectContainerOf(ident, objM, objects) ==
  [kind |-> "ObjectContainer", id |-> ident, objM |-> objM, objects |-> objects]

FacingContainerOf(ident, norm, objM, objects) ==
  [kind |-> "FacingContainer", id |-> ident, norm |-> norm, objM |-> objM,
   objects |-> objects]

\* the objects put into containers: a triangle, a facing triangle, two points,
\* a Mesh with heights for one of its two points, a DataMesh of one cell, a
\* container of the points and the facing triangle
Parts ==
  LET flat == <<<<0, 0, 0>>, <<2, 0, 0>>, <<0, 2, 0>>>>
      facing == TriangleOf("TriangleFacing", "facing", flat)
      points == PointsOf(<<2, 0, 2>>, <<3, 4>>)
  IN [triangle |-> TriangleOf("Triangle", "triangle", flat),
      facing |-> facing,
      points |-> points,
      mesh |-> [kind |-> "Mesh", id |-> "mesh", pos1 |-> <<0, 2>>, pos2 |-> <<0>>,
                heights |-> <<12>>, dirn |-> "Z_DIRN", lineprop |-> "lp",
                surfaceprop |-> "sp"],
      datamesh |-> DataMeshOf(<<0, 1, 2>>, <<0, 2>>, <<0, 2>>, <<12>>, FALSE,
                              <<"lp", "sp">>),
      inner |-> ObjectContainerOf("inner", FlipM, <<points, facing>>)]

\* the Mesh and the DataMesh of Parts, a PolyLine through a point that is not
\* a number, a DataMesh with two roles on one index, an AxisTickLabels with
\* two candidates
OtherObjs ==
  {Parts.mesh, Parts.datamesh,
   PolyLine_addPoints(NewPolyLine("polyline", "lp"), <<0, 2, NaN, 0>>,
                      <<0, 0, 0, 0>>, <<0, 0, 0>>),
   DataMeshOf(<<0, 1, 1>>, <<0, 2>>, <<0, 2>>, <<12>>, FALSE, <<"lp", "sp">>),
   AxisTickLabels_addAxisChoice(
     AxisTickLabels_addAxisChoice(
       NewAxisTickLabels("axis", <<0, 0, 0>>, <<1000, 1000, 1000>>, <<0, NaN>>),
       <<0, 0, 0>>, <<1000, 0, 0>>),
     <<0, 1000, 0>>, <<0, 1000, 1000>>)}

Containers ==
  {ObjectContainerOf("group", objM, objects) :
     objM \in {IdentityM, ObliqueM, FlipM},
     objects \in {<<>>, <<Parts.triangle>>, <<Parts.triangle, Parts.points>>,
                  <<Parts.points, Parts.triangle>>, <<Parts.facing, Parts.mesh>>,
                  <<Parts.inner, Parts.triangle>>, <<Parts.datamesh, Parts.inner>>}}
  \cup {FacingContainerOf("panel", norm, objM, objects) :
          norm \in {<<0, 0, 1>>, <<0, 0, 0 - 1>>, <<1, 0, 0>>},
          objM \in {IdentityM, ObliqueM},
          objects \in {<<Parts.triangle>>, <<Parts.points, Parts.inner>>}}

\* LineSegments(pts1, pts2, prop)
NewLineSegmentsPacked ==
  /\ obj = NoObject
  /\ \E pts1 \in PackedArrs, pts2 \in PackedArrs :
       Construct(LineSegments_fromPacked("segments", pts1, pts2, "lp"),
                 LineSegments_fromPackedOob(pts1, pts2))

\* LineSegments(x1, y1, z1, x2, y2, z2, prop)
NewLineSegmentsArrays ==
  /\ obj = NoObject
  /\ \E x1 \in {<<>>, <<0>>, <<0, 2>>, <<NaN, 0>>}, x2 \in {<<2>>, <<2, PInf>>} :
       Construct(LineSegments_fromArrays("segments", x1, <<0, 0>>, <<0, 0, 0>>,
                                         x2, <<2, 2>>, <<0, 0>>, "lp"), FALSE)

\* obj->getFragments(m, v) on an object of the kind
GetFragmentsOf(kind) ==
  /\ obj.kind = kind
  /\ \E m \in Mats :
       \E st \in {ObjGetFragments(obj, m, CallState(v))} :
         CallChanging(m, ObjAfter(obj, m), st.vec, st.oob, st.log)

TriangleGetFragments == GetFragmentsOf("Triangle")
TriangleFacingGetFragments == GetFragmentsOf("TriangleFacing")
LineSegmentsGetFragments == GetFragmentsOf("LineSegments")
PointsGetFragments == GetFragmentsOf("Points")
TextGetFragments == GetFragmentsOf("Text")
ObjectContainerGetFragments == GetFragmentsOf("ObjectContainer")
FacingContainerGetFragments == GetFragmentsOf("FacingContainer")

Init ==
  /\ InitCaller(MaxCalls)
  /\ obj \in {NoObject} \cup Triangles \cup PointsObjs \cup Texts \cup OtherObjs
              \cup Containers

Next ==
  \/ NewLineSegmentsPacked
  \/ NewLineSegmentsArrays
  \/ TriangleGetFragments
  \/ TriangleFacingGetFragments
  \/ LineSegmentsGetFragments
  \/ PointsGetFragments
  \/ TextGetFragments
  \/ PolyLineGetFragments
  \/ MeshGetFragments
  \/ DataMeshGetFragments
  \/ AxisTickLabelsGetFragments
  \/ ObjectContainerGetFragments
  \/ FacingContainerGetFragments

Spec == Init /\ [][Next]_vars

---------------------------------------------------------------------------
(* C4: segments of a PolyLine and of the line walks of a Mesh *)

\* the projection of point i (from 0) of the PolyLine obj in the last call
PolyP(i) == Proj(outerM, obj.points[i + 1])

\* the segment joining points i-1 and i, as the fragment that draws it
PolySeg(i) == LineSegFragment(obj, PolyP(i), PolyP(i - 1), i)

EndsFinite(f) == VecIsFinite(f.points[1]) /\ VecIsFinite(f.points[2])
SumFinite(f) == VecIsFinite(VecAdd(f.points[1], f.points[2]))

PolySegs == [i \in 1..(Len(obj.points) - 1) |-> PolySeg(i)]

\* n - 1 for n >= 1 points and 0 for none
Pairs(n) == IF n >= 1 THEN n - 1 ELSE 0

IsLineSeg(f) == f.type = "FR_LINESEG"
IsTriangle(f) == f.type = "FR_TRIANGLE"

\* step k (from 0) of Mesh::getLineFragments, in the order the loops take:
\* <<stepindex, consti, stepi>>
MeshStep(k) ==
  LET n1 == Len(obj.pos1)
      n2 == Len(obj.pos2)
  IN IF k < n1 * n2 THEN <<0, k \div n1, k % n1>>
     ELSE <<1, (k - n1 * n2) \div n2, (k - n1 * n2) % n2>>

MeshStepP(k) ==
  LET s == MeshStep(k)
  IN vec4to3(MatVec(outerM, MeshLinePt(obj, s[1], s[2], s[3])))

MeshSeg(k) == LineSegFragment(obj, MeshStepP(k), MeshStepP(k - 1), k)

\* the segments of all walks in the order drawn: one ends at every step that
\* is not the first of its walk
MeshSegs ==
  SelectSeq([k \in 1..(2 * Len(obj.pos1) * Len(obj.pos2) - 1) |-> MeshSeg(k)],
            LAMBDA f : MeshStep(f.index)[3] > 0)

\* the walks <<stepindex, consti>> of the mesh
MeshWalks ==
  {<<0, c>> : c \in 0..(Len(obj.pos2) - 1)} \cup
  {<<1, c>> : c \in 0..(Len(obj.pos1) - 1)}

WalkLen(w) == IF w[1] = 0 THEN Len(obj.pos1) ELSE Len(obj.pos2)

\* the number of the first step of walk w
WalkBase(w) ==
  IF w[1] = 0 THEN w[2] * Len(obj.pos1)
  ELSE Len(obj.pos1) * Len(obj.pos2) + w[2] * Len(obj.pos2)

\* the steps of walk w at which a segment ends
WalkSegSteps(w) == (WalkBase(w) + 1)..(WalkBase(w) + WalkLen(w) - 1)

\* the number of fragments of the sequence lines that walk w produced (told
\* by their index)
WalkCount(lines, w) ==
  Cardinality({j \in 1..Len(lines) : lines[j].index \in WalkSegSteps(w)})

AfterCallOn(kind) == calls > 0 /\ obj.kind = kind

\* C4 as stated: the number of segments appended for N points is N-1 minus
\* the number of consecutive pairs with a non-finite projected endpoint, for
\* a PolyLine and for every row or column walk of a Mesh.
C4_CountByEndpoints ==
  /\ AfterCallOn("PolyLine") =>
       LET segs == PolySegs
       IN Len(Appended) = Pairs(Len(obj.points))
            - Cardinality({i \in 1..Len(segs) : ~EndsFinite(segs[i])})
  /\ AfterCallOn("Mesh") /\ obj.lineprop # "null" =>
       LET lines == SelectSeq(Appended, IsLineSeg)
       IN \A w \in MeshWalks :
            WalkCount(lines, w) = Pairs(WalkLen(w))
              - Cardinality({k \in WalkSegSteps(w) : ~EndsFinite(MeshSeg(k))})

\* C4 amended: a PolyLine call appends, in order, exactly the segments between
\* consecutive points whose projected endpoints have a finite component-wise
\* sum, each joining point i-1 to point i; so their number is N-1 minus the
\* number of consecutive pairs whose sum is not finite (every pair with a
\* non-finite endpoint is such a pair), at most N-1, and 0 for N <= 1.  The
\* same holds of every row and column walk of Mesh::getLineFragments.
C4_CountBySum ==
  /\ AfterCallOn("PolyLine") =>
       LET segs == PolySegs
           ap == Appended
       IN /\ ap = SelectSeq(segs, SumFinite)
          /\ Len(ap) = Pairs(Len(obj.points))
                - Cardinality({i \in 1..Len(segs) : ~SumFinite(segs[i])})
          /\ Len(ap) <= Pairs(Len(obj.points))
          /\ \A i \in 1..Len(segs) : ~EndsFinite(segs[i]) => ~SumFinite(segs[i])
  /\ AfterCallOn("Mesh") /\ obj.lineprop # "null" =>
       LET lines == SelectSeq(Appended, IsLineSeg)
       IN /\ lines = SelectSeq(MeshSegs, SumFinite)
          /\ \A w \in MeshWalks :
               /\ WalkCount(lines, w) = Pairs(WalkLen(w))
                    - Cardinality({k \in WalkSegSteps(w) : ~SumFinite(MeshSeg(k))})
               /\ WalkCount(lines, w) <= Pairs(WalkLen(w))
  /\ AfterCallOn("Mesh") /\ obj.lineprop = "null" =>
       SelectSeq(Appended, IsLineSeg) = <<>>

\* a PolyLine of three points whose middle point projects to a non-finite
\* point while the first projects to a finite one, and a call was made
C4_Witness ==
  /\ AfterCallOn("PolyLine")
  /\ Len(obj.points) = 3
  /\ VecIsFinite(PolyP(0)) /\ ~VecIsFinite(PolyP(1)) /\ VecIsFinite(PolyP(2))
  /\ Len(Appended) = 0

---------------------------------------------------------------------------
(* C9: the triangles of a Mesh *)

\* the grid point (j1, j2) of the Mesh obj before projection
GridPt(j1, j2) ==
  LET vi == getVecIdxs(obj)
  IN SetC(SetC(SetC(<<0, 0, 0, 1>>, vi[2], Rd(obj.pos1, j1)),
               vi[3], Rd(obj.pos2, j2)),
          vi[1], Rd(obj.heights, j1 * Len(obj.pos2) + j2))

\* number of unit cells along each axis
Cells1 == IF Len(obj.pos1) >= 2 THEN Len(obj.pos1) - 1 ELSE 0
Cells2 == IF Len(obj.pos2) >= 2 THEN Len(obj.pos2) - 1 ELSE 0

\* the diagonal of cell (i1, i2): for i1+i2 even the one from (i1+1, i2) to
\* (i1, i2+1), for i1+i2 odd the one from (i1, i2) to (i1+1, i2+1)
Diagonal(i1, i2) ==
  IF (i1 + i2) % 2 = 0 THEN <<<<i1 + 1, i2>>, <<i1, i2 + 1>>>>
  ELSE <<<<i1, i2>>, <<i1 + 1, i2 + 1>>>>

\* whether the diagonal of cell (i1, i2) runs from its corner (i1, i2)
DiagonalRises(i1, i2) == Diagonal(i1, i2)[1] = <<i1, i2>>

\* the two corners of cell (i1, i2) off its diagonal, in the order drawn
OffDiagonal(i1, i2) ==
  IF (i1 + i2) % 2 = 0 THEN <<<<i1, i2>>, <<i1 + 1, i2 + 1>>>>
  ELSE <<<<i1 + 1, i2>>, <<i1, i2 + 1>>>>

\* triangle tri (0, 1) of cell number c (cells counted row by row): its
\* three grid corners, the off-diagonal corner first, then the diagonal
CellTriCorners(c, tri) ==
  LET i1 == c \div Cells2
      i2 == c % Cells2
  IN <<OffDiagonal(i1, i2)[tri + 1], Diagonal(i1, i2)[1], Diagonal(i1, i2)[2]>>

CornersFinite(cs) == \A k \in 1..3 : VecIsFinite(GridPt(cs[k][1], cs[k][2]))

CornerSumFinite(cs) ==
  VecIsFinite(Vec4Add(Vec4Add(GridPt(cs[1][1], cs[1][2]), GridPt(cs[2][1], cs[2][2])),
                      GridPt(cs[3][1], cs[3][2])))

CellTriFragment(c, tri) ==
  LET cs == CellTriCorners(c, tri)
      P(k) == vec4to3(MatVec(outerM, GridPt(cs[k][1], cs[k][2])))
  IN TriangleFragment(obj, P(1), P(2), P(3), c)

\* all triangles of the mesh in cell order, two per cell, each with its corners
CellTris ==
  [q \in 1..(2 * Cells1 * Cells2) |->
     [frag |-> CellTriFragment((q - 1) \div 2, (q - 1) % 2),
      corners |-> CellTriCorners((q - 1) \div 2, (q - 1) % 2)]]

Frags(sq) == [j \in 1..Len(sq) |-> sq[j].frag]

AppendedTris == SelectSeq(Appended, IsTriangle)

\* the number of triangles of cell c in the sequence tris
CellCount(tris, c) == Cardinality({j \in 1..Len(tris) : tris[j].index = c})

\* C9 as stated: with a surface style, a triangle of a cell is emitted if and
\* only if its own 3 pre-projection corner points are finite (so a cell with 4
\* finite corners yields its 2 triangles), the two triangles of a cell share
\* the diagonal chosen by (i1+i2) mod 2 and use all 4 corners.
C9_TrisByCorners ==
  AfterCallOn("Mesh") /\ obj.surfaceprop # "null" =>
    AppendedTris = Frags(SelectSeq(CellTris, LAMBDA t : CornersFinite(t.corners)))

\* C9 amended: with a surface style the triangles appended are, cell by cell
\* in row order, those of the cell's two triangles whose 3 pre-projection
\* corner points have a finite component-wise sum (which needs the 3 corners
\* finite, and fails for finite corners only when the sum overflows); the two
\* triangles of cell (i1,i2) share the diagonal chosen by (i1+i2) mod 2 and
\* use all 4 corners, so cells adjacent along a grid axis use opposite
\* diagonals, and a cell with one non-finite corner yields 0 or 1 triangles;
\* without a surface style no triangle is appended.
C9_TrisBySum ==
  /\ AfterCallOn("Mesh") /\ obj.surfaceprop # "null" =>
       LET tris == AppendedTris
           all == CellTris
       IN /\ tris = Frags(SelectSeq(all, LAMBDA t : CornerSumFinite(t.corners)))
          /\ \A q \in 1..Len(all) :
               CornerSumFinite(all[q].corners) => CornersFinite(all[q].corners)
          /\ \A c \in 0..(Cells1 * Cells2 - 1) :
               LET a == all[2 * c + 1].corners
                   b == all[2 * c + 2].corners
                   i1 == c \div Cells2
                   i2 == c % Cells2
               IN /\ {a[1], a[2], a[3]} \cup {b[1], b[2], b[3]}
                       = {<<i1, i2>>, <<i1 + 1, i2>>, <<i1, i2 + 1>>, <<i1 + 1, i2 + 1>>}
                  /\ {a[1], a[2], a[3]} \cap {b[1], b[2], b[3]}
                       = {Diagonal(i1, i2)[1], Diagonal(i1, i2)[2]}
                  /\ i1 + 1 < Cells1 => DiagonalRises(i1 + 1, i2) # DiagonalRises(i1, i2)
                  /\ i2 + 1 < Cells2 => DiagonalRises(i1, i2 + 1) # DiagonalRises(i1, i2)
                  /\ CellCount(tris, c)
                       = Cardinality({t \in {a, b} : CornerSumFinite(t)})
                  /\ (\E k \in 1..3 : ~VecIsFinite(GridPt(a[k][1], a[k][2])))
                       => CellCount(tris, c) <= 1
  /\ AfterCallOn("Mesh") /\ obj.surfaceprop = "null" => AppendedTris = <<>>

\* a mesh of 2 x 2 cells with a surface style and exactly one NaN height,
\* drawn: some cell has lost a triangle and some cell has both
C9_Witness ==
  /\ AfterCallOn("Mesh") /\ obj.surfaceprop # "null"
  /\ Cells1 = 2 /\ Cells2 = 2
  /\ Len(obj.heights) = 9
  /\ Cardinality({k \in 1..9 : obj.heights[k] = NaN}) = 1
  /\ LET tris == AppendedTris
     IN /\ \E c \in 0..3 : CellCount(tris, c) = 1
        /\ \E c \in 0..3 : CellCount(tris, c) = 2

---------------------------------------------------------------------------
(* C5: validation of a DataMesh *)

\* the role indices cover each of 0, 1, 2 exactly once
IdxsArePermutation ==
  \A k \in 0..2 :
    Cardinality({r \in 1..3 : <<obj.idxval, obj.idxedge1, obj.idxedge2>>[r] = k}) = 1

\* the numbers of cells along edges1 and edges2 (-1 for no edge at all)
Cells1D == Len(obj.edges1) - 1
Cells2D == Len(obj.edges2) - 1

SizesMatch == Len(obj.vals) = Cells1D * Cells2D

\* C5: a DataMesh::getFragments call leaves the output sequence unchanged (and
\* reports the error) whenever the role indices are not a permutation of
\* 0, 1, 2 or the number of cell values differs from
\* (len(edges1)-1)*(len(edges2)-1); a permutation with a matching size is
\* never rejected: nothing is reported and, with a surface style, every cell
\* with a finite value is drawn (two empty edge arrays match one value, and
\* have no cell).
C5_Validation ==
  AfterCallOn("DataMesh") =>
    /\ ~IdxsArePermutation => v = prev /\ log = <<"DataMesh: invalid indices">>
    /\ IdxsArePermutation /\ ~SizesMatch =>
         v = prev /\ log = <<"DataMesh: invalid size">>
    /\ IdxsArePermutation /\ SizesMatch =>
         /\ log = <<>>
         /\ SubSeq(v, 1, Len(prev)) = prev
         /\ obj.surfaceprop # "null" /\ Cells1D >= 1 /\ Cells2D >= 1 =>
              \A k \in 1..Len(obj.vals) :
                IsFiniteD(obj.vals[k]) =>
                  \E j \in 1..Len(Appended) :
                    IsTriangle(Appended[j]) /\ Appended[j].index = k - 1

\* a call on a DataMesh with styles and a cell to draw, rejected for an index
\* above 2
C5_Witness ==
  /\ AfterCallOn("DataMesh")
  /\ 3 \in {obj.idxval, obj.idxedge1, obj.idxedge2}
  /\ SizesMatch /\ Len(obj.vals) = 1
  /\ obj.surfaceprop # "null" /\ obj.lineprop # "null"
  /\ v = prev /\ log # <<>>

---------------------------------------------------------------------------
(* C1: every side of a DataMesh cell is drawn once *)

\* the parts of a cell side that are drawn as one segment: the whole side
\* (2) in low resolution, its two halves (0, 1) in high resolution
SideParts == IF obj.highres THEN {0, 1} ELSE {2}

\* the sides of the cells <<direction, i1, i2, part>>: those along edges1
\* ("a") start at grid point (i1, i2) with i1 a cell index, those along edges2
\* ("b") with i2 a cell index; a grid without cells has none
Sides ==
  IF Cells1D < 1 \/ Cells2D < 1 THEN {}
  ELSE {<<"a", i1, i2, h>> :
          i1 \in 0..(Cells1D - 1), i2 \in 0..Cells2D, h \in SideParts}
       \cup
       {<<"b", i1, i2, h>> :
          i1 \in 0..Cells1D, i2 \in 0..(Cells2D - 1), h \in SideParts}

\* whether side s has a cell on its near side (the cell of the same indices)
\* and on its far side (the cell before it)
HasNear(s) == IF s[1] = "a" THEN s[3] < Cells2D ELSE s[2] < Cells1D
HasFar(s) == IF s[1] = "a" THEN s[3] > 0 ELSE s[2] > 0

\* the two corner numbers of side s in its near cell and in its far cell
SideCorners(s, near) ==
  CASE s[1] = "a" /\ near ->
         (CASE s[4] = 2 -> {0, 2} [] s[4] = 0 -> {0, 1} [] OTHER -> {1, 2})
    [] s[1] = "a" /\ ~near ->
         (CASE s[4] = 2 -> {6, 4} [] s[4] = 0 -> {6, 5} [] OTHER -> {5, 4})
    [] s[1] = "b" /\ near ->
         (CASE s[4] = 2 -> {0, 6} [] s[4] = 0 -> {0, 7} [] OTHER -> {7, 6})
    [] OTHER ->
         (CASE s[4] = 2 -> {2, 4} [] s[4] = 0 -> {2, 3} [] OTHER -> {3, 4})

\* the projected endpoints of side s as its near or far cell computes them
SideEndsFrom(s, near) ==
  LET i1 == IF s[1] = "b" /\ ~near THEN s[2] - 1 ELSE s[2]
      i2 == IF s[1] = "a" /\ ~near THEN s[3] - 1 ELSE s[3]
  IN {vec4to3(MatVec(outerM, DataMeshCorner(obj, i1, i2, j))) :
        j \in SideCorners(s, near)}

SideEnds(s) == SideEndsFrom(s, HasNear(s))

EndsAreFinite(E) == \A p \in E : VecIsFinite(p)

LineEnds(f) == {f.points[1], f.points[2]}

\* a call on a DataMesh with valid role indices, matching sizes, a line style
\* and finite cell values (every transform of the model is finite)
C1_Scope ==
  /\ AfterCallOn("DataMesh")
  /\ IdxsArePermutation /\ SizesMatch
  /\ obj.lineprop # "null"
  /\ \A k \in 1..Len(obj.vals) : IsFiniteD(obj.vals[k])

\* the number of fragments of lines with endpoints E
LinesWith(lines, E) == Cardinality({j \in 1..Len(lines) : LineEnds(lines[j]) = E})

\* C1 as stated: in a grid whose cell values are all finite every cell side
\* (every half side in high resolution) appears as exactly one LineSegment
\* fragment, no side is missing and nothing else is emitted.
C1_EverySideOnce ==
  C1_Scope =>
    LET lines == SelectSeq(Appended, IsLineSeg)
        table == {<<s, SideEnds(s)>> : s \in Sides}
    IN /\ Len(lines) = Cardinality(Sides)
       /\ \A p \in table :
            LinesWith(lines, p[2]) = Cardinality({q \in table : q[2] = p[2]})

\* C1 amended: in a grid whose cell values are all finite, one call emits
\* exactly once every cell side (half side in high resolution) whose two
\* projected endpoints are finite, and no other segment: no side is drawn
\* twice although each internal side is visited from both adjacent cells,
\* which compute the same endpoints for it; if every endpoint is finite the
\* number of segments is the number of sides.
C1_FiniteSidesOnce ==
  C1_Scope =>
    LET lines == SelectSeq(Appended, IsLineSeg)
        table == {<<s, SideEnds(s)>> : s \in Sides}
        drawn == {p \in table : EndsAreFinite(p[2])}
    IN /\ Len(lines) = Cardinality(drawn)
       /\ \A p \in drawn :
            LinesWith(lines, p[2]) = Cardinality({q \in table : q[2] = p[2]})
       /\ \A j \in 1..Len(lines) : \E p \in drawn : p[2] = LineEnds(lines[j])
       /\ \A s \in Sides :
            HasNear(s) /\ HasFar(s) => SideEndsFrom(s, TRUE) = SideEndsFrom(s, FALSE)
       /\ drawn = table /\ Cells1D >= 1 /\ Cells2D >= 1 =>
            Len(lines) = Cardinality(SideParts)
                           * (Cells1D * (Cells2D + 1) + Cells2D * (Cells1D + 1))

\* a grid of 2 x 2 cells, all sides finite and distinct, every side drawn
C1_Witness ==
  /\ C1_Scope
  /\ Cells1D = 2 /\ Cells2D = 2
  /\ LET lines == SelectSeq(Appended, IsLineSeg)
     IN /\ Len(lines) = Cardinality(Sides)
        /\ Cardinality({SideEnds(s) : s \in Sides}) = Cardinality(Sides)
        /\ \E s \in Sides : HasNear(s) /\ HasFar(s)

---------------------------------------------------------------------------
(* C3, C2: the edge AxisTickLabels chooses *)

AxisCount == Min(Len(obj.starts), Len(obj.ends))

\* what the claims speak of for candidate a: whether it crosses, in 2D, a
\* boundary edge of one of the 6 faces; where its projected midpoint lies
\* relative to the centre of the projected cube; its rank under the strict
\* priority front, bottom, left and as the sum of the weights 12, 11, 10; the
\* fragments that choosing it appends
AxisFact(a, corners, centre) ==
  LET s == Proj(outerM, obj.starts[a + 1])
      e == Proj(outerM, obj.ends[a + 1])
      isleft == BoolInt(DLe(Half(DAdd(s[1], e[1])), centre[1]))
      isbottom == BoolInt(DGt(Half(DAdd(s[2], e[2])), centre[2]))
      isfront == BoolInt(DGt(Half(DAdd(s[3], e[3])), centre[3]))
  IN [crosses |-> \E face \in 1..6, edge \in 0..3 :
                    twodLineCross(vec3to2(s), vec3to2(e),
                      vec3to2(corners[faces[face][edge + 1] + 1]),
                      vec3to2(corners[faces[face][((edge + 1) % 4) + 1] + 1])),
      left |-> isleft, bottom |-> isbottom, front |-> isfront,
      met |-> isleft + isbottom + isfront,
      strict |-> 4 * isfront + 2 * isbottom + isleft,
      weight |-> 12 * isfront + 11 * isbottom + 10 * isleft,
      ticks |-> AxisTicksLoop(obj, outerM, a, 0, <<>>)]

RECURSIVE AxisFactsFrom(_, _, _, _)
AxisFactsFrom(a, corners, centre, facts) ==
  IF a >= AxisCount THEN facts
  ELSE AxisFactsFrom(a + 1, corners, centre,
                     Append(facts, AxisFact(a, corners, centre)))

\* the facts of the candidates in the order they were added
AxisFacts ==
  LET corners == AxisSceneCorners(obj, outerM)
  IN AxisFactsFrom(0, corners, AxisCentre(corners), <<>>)

NonCrossing(F) == {a \in 1..Len(F) : ~F[a].crosses}

Viable(F) == IF NonCrossing(F) = {} THEN 1..Len(F) ELSE NonCrossing(F)

\* the first-added viable candidate of highest rank
FirstBest(F, rank) ==
  CHOOSE a \in Viable(F) :
    \A b \in Viable(F) : F[b][rank] < F[a][rank] \/ (F[b][rank] = F[a][rank] /\ a <= b)

\* the ticks tell the chosen candidate from the others
TicksTell == obj.tickfracs = <<0, 1>>

\* C3: with at least one candidate the fragments appended are the ticks of a
\* candidate that crosses no face edge if there is one (so of the only such
\* candidate if there is exactly one, whatever its score), and of some
\* candidate if all of them cross; one fragment per tick fraction is emitted;
\* without candidates nothing is appended.
C3_NonCrossingChosen ==
  AfterCallOn("AxisTickLabels") =>
    IF AxisCount = 0 THEN v = prev
    ELSE LET F == AxisFacts
         IN /\ \E a \in Viable(F) : Appended = F[a].ticks
            /\ Len(Appended) = Len(obj.tickfracs)
            /\ NonCrossing(F) # {} => \E a \in NonCrossing(F) : Appended = F[a].ticks
            /\ \A a \in 1..Len(F) : NonCrossing(F) = {a} => Appended = F[a].ticks

\* the only candidate that crosses no face edge is chosen although it was
\* added after a crossing candidate of higher score
C3_Witness ==
  /\ AfterCallOn("AxisTickLabels") /\ TicksTell
  /\ AxisCount >= 2
  /\ LET F == AxisFacts
     IN \E a \in 2..Len(F) :
          /\ NonCrossing(F) = {a}
          /\ F[1].weight > F[a].weight
          /\ Appended = F[a].ticks
          /\ Appended # F[1].ticks

\* C2 as stated: the edge chosen among the viable edges is the one ranking
\* highest under the strict priority front, then bottom, then left, the
\* first-added on a full tie.
C2_StrictPriority ==
  AfterCallOn("AxisTickLabels") /\ AxisCount > 0 =>
    LET F == AxisFacts
    IN Appended = F[FirstBest(F, "strict")].ticks

\* C2 amended: the edge chosen among the viable edges is the one with the
\* highest sum of the weights 12 (front), 11 (bottom) and 10 (left), the
\* first-added on a tie: an edge meeting more of the three conditions is
\* chosen over one meeting fewer, and front, bottom, left rank in this order
\* only among edges meeting the same number of conditions.
C2_WeightSum ==
  AfterCallOn("AxisTickLabels") /\ AxisCount > 0 =>
    LET F == AxisFacts
        best == FirstBest(F, "weight")
    IN /\ Appended = F[best].ticks
       /\ \A b \in Viable(F) :
            /\ F[b].met <= F[best].met
            /\ F[b].met = F[best].met => F[b].strict <= F[best].strict

\* an edge to the left and at the bottom but not in front is chosen although
\* a viable edge added before it is in front
C2_Witness ==
  /\ AfterCallOn("AxisTickLabels") /\ TicksTell
  /\ AxisCount >= 2
  /\ LET F == AxisFacts
         best == FirstBest(F, "weight")
     IN /\ F[best].front = 0 /\ F[best].bottom = 1 /\ F[best].left = 1
        /\ \E a \in Viable(F) : a < best /\ F[a].front = 1 /\ F[a].met = 1
        /\ Appended = F[best].ticks
        /\ Appended # F[FirstBest(F, "strict")].ticks

---------------------------------------------------------------------------
(* C6: reads of the input arrays *)

\* C6: no constructor and no getFragments reads an array element at an index
\* at or beyond the length of the array.
C6_NoReadPastEnd == oob = FALSE

---------------------------------------------------------------------------
(* C7: the points of the fragments *)

\* the points a fragment of its type uses are finite
UsedPointsFinite(f) == \A k \in DOMAIN f.points : VecIsFinite(f.points[k])

\* C7: every FR_LINESEG and FR_PATH fragment in the output has all of its used
\* points finite.
C7_FragmentsFinite ==
  \A k \in 1..Len(v) :
    v[k].type \in {"FR_LINESEG", "FR_PATH"} => UsedPointsFinite(v[k])

---------------------------------------------------------------------------
(* C8: the facing cull *)

\* the depth of the transformed point p
Depth(p) == vec4to3(MatVec(outerM, vec3to4(p)))[3]

\* the depth of the transformed normal is greater than the depth of the
\* transformed origin
NormalInFront(norm) ==
  LET dn == Depth(norm)
      do == Depth(<<0, 0, 0>>)
  IN dn # NaN /\ do # NaN /\ dn > do

TriangleNormal == cross(VecSub(obj.points[2], obj.points[1]),
                        VecSub(obj.points[3], obj.points[1]))

\* what object c appends to a vector under the transform m
Appends(c, m) == ObjGetFragments(c, m, CallState(<<>>)).vec

\* what the objects of container o from the i-th on append under m, in order
RECURSIVE AppendsFrom(_, _, _)
AppendsFrom(o, m, i) ==
  IF i > Len(o.objects) THEN <<>>
  ELSE Appends(o.objects[i], m) \o AppendsFrom(o, m, i + 1)

\* C8: TriangleFacing appends its one triangle, and FacingContainer what its
\* children append, if and only if the depth of the transformed normal is
\* strictly greater than the depth of the transformed origin; otherwise the
\* output is left unchanged.
C8_FacingCull ==
  /\ AfterCallOn("TriangleFacing") =>
       IF NormalInFront(TriangleNormal)
       THEN /\ Len(Appended) = 1
            /\ Appended[1].type = "FR_TRIANGLE" /\ Appended[1].object = obj.id
            /\ Appended[1].points = [k \in 1..3 |-> Proj(outerM, obj.points[k])]
            /\ SubSeq(v, 1, Len(prev)) = prev
       ELSE v = prev
  /\ AfterCallOn("FacingContainer") =>
       IF NormalInFront(obj.norm)
       THEN /\ Appended = AppendsFrom(obj, MatMul(outerM, obj.objM), 1)
            /\ SubSeq(v, 1, Len(prev)) = prev
       ELSE v = prev

\* a TriangleFacing whose normal a view other than the identity leaves in
\* front of the origin appended its triangle to an output that held fragments
C8_Witness ==
  /\ AfterCallOn("TriangleFacing")
  /\ outerM # IdentityM /\ prev # <<>>
  /\ NormalInFront(TriangleNormal)
  /\ Len(Appended) = 1 /\ Appended[1].object = obj.id

---------------------------------------------------------------------------
(* C10: the decomposition is additive and ordered *)

\* what o appends under m, the containers within it taken apart: for an
\* ObjectContainer what its children append under m * objM, child by child
RECURSIVE FlatAppends(_, _)
RECURSIVE FlatAppendsFrom(_, _, _)
FlatAppendsFrom(o, m, i) ==
  IF i > Len(o.objects) THEN <<>>
  ELSE FlatAppends(o.objects[i], m) \o FlatAppendsFrom(o, m, i + 1)

FlatAppends(o, m) ==
  IF o.kind = "ObjectContainer" THEN FlatAppendsFrom(o, MatMul(m, o.objM), 1)
  ELSE Appends(o, m)

\* the i-th child's fragments start in Appended after those of the children
\* before it
ChildStart(i, m) == Len(AppendsFrom([objects |-> SubSeq(obj.objects, 1, i - 1)], m, 1))

\* C10: after getFragments on an object of any kind the previous content of
\* the output is an unchanged prefix of the new content; for an
\* ObjectContainer the suffix is the concatenation, in child order, of what
\* each child appends under outer * local, also across nested containers.
C10_AdditiveOrdered ==
  calls > 0 =>
    /\ Len(v) >= Len(prev)
    /\ SubSeq(v, 1, Len(prev)) = prev
    /\ obj.kind = "ObjectContainer" =>
         LET totM == MatMul(outerM, obj.objM)
         IN /\ Appended = AppendsFrom(obj, totM, 1)
            /\ Appended = FlatAppends(obj, outerM)
            /\ \A i \in 1..Len(obj.objects) :
                 SubSeq(Appended, ChildStart(i, totM) + 1, ChildStart(i + 1, totM))
                   = Appends(obj.objects[i], totM)

\* a container of a nested container and another object, each of which
\* appended fragments, called with transforms that do not commute, on an
\* output that held fragments
C10_Witness ==
  /\ AfterCallOn("ObjectContainer")
  /\ prev # <<>>
  /\ Len(obj.objects) = 2
  /\ \E i \in 1..2 : obj.objects[i].kind = "ObjectContainer"
  /\ LET totM == MatMul(outerM, obj.objM)
     IN /\ totM # MatMul(obj.objM, outerM)
        /\ \A i \in 1..2 : Appends(obj.objects[i], totM) # <<>>
        /\ Appends(obj.objects[1], totM) # Appends(obj.objects[2], totM)
        /\ Appended = Appends(obj.objects[1], totM) \o Appends(obj.objects[2], totM)

---------------------------------------------------------------------------
(* C11: a second call with the same transform *)

\* the last Len(Appended) fragments of the output as the last call found it
PrevTail ==
  IF Len(prev) >= Len(Appended)
  THEN SubSeq(prev, Len(prev) - Len(Appended) + 1, Len(prev))
  ELSE <<>>

\* C11: a second getFragments call on the same object with the transform of
\* the first appends the fragment sequence the first call appended, with
\* the same kinds, points and sub-indices; nothing the first call wrote to
\* the object or to the output changes what the second appends.
C11_SameTwice ==
  [][(calls = 1 /\ calls' = 2 /\ outerM' = outerM) => Appended' = Appended]_vars

\* a DataMesh called twice under a view that is not the identity, that drew
\* line segments in the second call, the same sequence as the one before it
\* at the end of the output
C11_Witness ==
  /\ calls = 2
  /\ obj.kind = "DataMesh"
  /\ outerM # IdentityM
  /\ \E i \in 1..Len(Appended) : Appended[i].type = "FR_LINESEG"
  /\ PrevTail = Appended

---------------------------------------------------------------------------
(* C12: what each DataMesh cell contributes *)

\* the fragments and the triangles the last call appended for cell number k
CellFrags(k) == SelectSeq(Appended, LAMBDA f : f.index = k)
CellTriangles(k) == SelectSeq(Appended, LAMBDA f : IsTriangle(f) /\ f.index = k)

\* the corner numbers of the triangles of cell (i1, i2), in drawing order
CellTriTable(i1, i2) ==
  IF obj.highres
  THEN <<<<8,0,1>>, <<8,1,2>>, <<8,2,3>>, <<8,3,4>>,
         <<8,4,5>>, <<8,5,6>>, <<8,6,7>>, <<8,7,0>>>>
  ELSE IF (i1 + i2) % 2 = 0 THEN <<<<0,2,4>>, <<0,6,4>>>>
       ELSE <<<<2,0,6>>, <<2,4,6>>>>

\* the triangles of cell (i1, i2), number k, over its nine projected corners
CellTrisExpected(i1, i2, k) ==
  LET c == DataMeshCorners3(obj, outerM, i1, i2)
      tab == CellTriTable(i1, i2)
  IN [t \in 1..Len(tab) |->
        TriangleFragment(obj, c[tab[t][1] + 1], c[tab[t][2] + 1], c[tab[t][3] + 1], k)]

TriHasNonFinitePoint(f) ==
  IsTriangle(f) /\ \E p \in 1..3 : ~VecIsFinite(f.points[p])

\* C12: in a DataMesh::getFragments call that passes validation, a cell with
\* a non-finite value contributes no fragment at all; with a surface style
\* every cell with a finite value contributes exactly its 8 (high
\* resolution) or 2 (low resolution) triangles whatever their points are,
\* from the table chosen by (i1+i2) mod 2 in low resolution; every fragment
\* belongs to a cell; without a surface style there is no triangle and with
\* neither style there is no fragment.
C12_PerCell ==
  (AfterCallOn("DataMesh") /\ IdxsArePermutation /\ SizesMatch) =>
    /\ obj.surfaceprop = "null" => \A j \in 1..Len(Appended) : ~IsTriangle(Appended[j])
    /\ (obj.surfaceprop = "null" /\ obj.lineprop = "null") => Appended = <<>>
    /\ (Cells1D < 1 \/ Cells2D < 1) => Appended = <<>>
    /\ \A j \in 1..Len(Appended) : Appended[j].index \in 0..(Len(obj.vals) - 1)
    /\ (Cells1D >= 1 /\ Cells2D >= 1) =>
         \A i1 \in 0..(Cells1D - 1), i2 \in 0..(Cells2D - 1) :
           LET k == i1 * Cells2D + i2
           IN IF ~IsFiniteD(obj.vals[k + 1]) THEN CellFrags(k) = <<>>
              ELSE obj.surfaceprop # "null" =>
                     /\ CellTriangles(k) = CellTrisExpected(i1, i2, k)
                     /\ Len(CellTriangles(k)) = (IF obj.highres THEN 8 ELSE 2)

\* a low resolution call with a surface style on a grid with a cell without
\* a value and a cell with i1+i2 odd that gave its two triangles, one of the
\* appended triangles having a point that is not finite
C12_Witness ==
  /\ AfterCallOn("DataMesh") /\ IdxsArePermutation /\ SizesMatch
  /\ ~obj.highres /\ obj.surfaceprop # "null"
  /\ Cells1D >= 1 /\ Cells2D >= 1
  /\ \E k \in 1..Len(obj.vals) : ~IsFiniteD(obj.vals[k])
  /\ \E i1 \in 0..(Cells1D - 1), i2 \in 0..(Cells2D - 1) :
       /\ (i1 + i2) % 2 = 1
       /\ IsFiniteD(obj.vals[i1 * Cells2D + i2 + 1])
       /\ Len(CellTriangles(i1 * Cells2D + i2)) = 2
  /\ \E j \in 1..Len(Appended) : TriHasNonFinitePoint(Appended[j])

---------------------------------------------------------------------------
(* C13: the accesses to the line tracker *)

\* the tracker of a call on obj
ObjTracker == LineCellTracker(Len(obj.edges1), Len(obj.edges2))

\* the keys <<i1', i2', lineidx>> that the line loop of cell (i1, i2) passes
\* to isLineSet and setLine with the offset table tab
CellKeys(tab, i1, i2) ==
  {<<i1 + tab[i][1], i2 + tab[i][2], tab[i][3]>> : i \in 1..Len(tab)}

\* the keys of every cell of the grid, for both offset tables
AllCellKeys ==
  IF Cells1D < 1 \/ Cells2D < 1 THEN {}
  ELSE UNION {CellKeys(linecell_lowres, i1, i2) \cup CellKeys(linecell_highres, i1, i2) :
                i1 \in 0..(Cells1D - 1), i2 \in 0..(Cells2D - 1)}

\* every key a tracker of this size is made for
KeySpace ==
  (0..(Len(obj.edges1) - 1)) \X (0..(Len(obj.edges2) - 1)) \X (0..(MAXLINEIDX - 1))

FlatIdx(t, key) == LineCellIdx(t, key[1], key[2], key[3])

\* C13: in a DataMesh::getFragments call that passes validation the tracker
\* holds len(edges1)*len(edges2)*4 entries; every key of every cell, the
\* last row and column included, under either offset table has
\* i1' < len(edges1), i2' < len(edges2), lineidx < 4 and a flat index
\* (i1'*len(edges2)+i2')*4+lineidx inside the tracker; distinct keys have
\* distinct flat indices.
C13_TrackerBounds ==
  (AfterCallOn("DataMesh") /\ IdxsArePermutation /\ SizesMatch) =>
    \A t \in {ObjTracker} :
      /\ Len(t.data) = Len(obj.edges1) * Len(obj.edges2) * 4
      /\ \A key \in AllCellKeys :
           /\ key \in KeySpace
           /\ FlatIdx(t, key) = (key[1] * Len(obj.edges2) + key[2]) * 4 + key[3]
           /\ FlatIdx(t, key) + 1 \in DOMAIN t.data
      /\ Cardinality({FlatIdx(t, key) : key \in KeySpace}) = Cardinality(KeySpace)

\* a high resolution call with a line style on a grid of two by two cells
\* whose last cell has a value and drew a line, the tracker's last grid
\* point being one of its keys
C13_Witness ==
  /\ AfterCallOn("DataMesh") /\ IdxsArePermutation /\ SizesMatch
  /\ obj.highres /\ obj.lineprop # "null"
  /\ Cells1D = 2 /\ Cells2D = 2
  /\ IsFiniteD(obj.vals[4])
  /\ \E j \in 1..Len(Appended) : IsLineSeg(Appended[j]) /\ Appended[j].index = 3
  /\ \E key \in CellKeys(linecell_highres, 1, 1) : key[1] = 2 \/ key[2] = 2

=============================================================================
